---- MODULE Spec2Model ----
(***************************************************************************)
(* Model of Vue-Optional-Helper: the Optional<T> value type of             *)
(* src/src/Optional.ts and the operations on it, the reactive adapters of  *)
(* src/src/ReactiveOptional.ts, and useMaybe of use-maybe.ts.              *)
(*                                                                         *)
(* A JavaScript value is a record [t |-> type tag, v |-> code]: numbers    *)
(* are their value, strings their length ('' is 0), booleans 0 and 1.      *)
(* null and undefined are two distinct values.  An Optional object is a    *)
(* record [value |-> v], the variable the closure of createOptional        *)
(* captures.  A user-supplied function is a table from its argument to its *)
(* outcome [thrown, val]: what it returns, or the error it throws.         *)
(***************************************************************************)
EXTENDS Integers, Sequences, FiniteSets, TLC

\* ---------------------------------------------------------------- bounds
\* largest number, and longest string, a raw value may be
MaxCode == 1
\* largest number of Optional objects alive in one run of single calls
MaxObjs == 2
\* largest number of setAsync / orElseGetAsync calls in one run
MaxCalls == 2
\* largest number of map / flatMap / filter steps in one chain
MaxSteps == 2

\* ------------------------------------------------------------ JS values
Null      == [t |-> "null",      v |-> 0]
Undefined == [t |-> "undefined", v |-> 0]
Num(n)    == [t |-> "number",    v |-> n]
Str(n)    == [t |-> "string",    v |-> n]
Bool(b)   == [t |-> "boolean",   v |-> IF b THEN 1 ELSE 0]
Err(n)    == [t |-> "error",     v |-> n]

\* type Nullable<T> = T | null | undefined
Nullable == {Null, Undefined}
              \cup {Num(n) : n \in 0..MaxCode}
              \cup {Str(n) : n \in 0..MaxCode}
              \cup {Bool(b) : b \in BOOLEAN}
\* the values of T itself
NonNull == Nullable \ {Null, Undefined}

\* the values a cell holds and a pending operation resolves with
CellValues == {Null, Undefined} \cup {Num(n) : n \in 0..MaxCode}

\* new Error('No value present in Optional')
NoValuePresent == Err(0)
\* the errors user code raises or supplies
UserErrors == {Err(1)}

\* JavaScript truthiness of a value (used by no operation of the library)
Truthy(x) == x.t \notin {"null", "undefined"} /\ x.v # 0

\* ------------------------------------------------- user-supplied functions
Returns(x) == [thrown |-> FALSE, val |-> x]
Throws(e)  == [thrown |-> TRUE,  val |-> e]

\* mapper: (value: T) => R, the constant functions, the identity, a thrower
Mappers == {[x \in NonNull |-> Returns(y)] : y \in Nullable}
             \cup {[x \in NonNull |-> Returns(x)]}
             \cup {[x \in NonNull |-> Throws(e)] : e \in UserErrors}
             \cup {[x \in NonNull |-> IF Truthy(x) THEN Returns(x) ELSE Returns(Null)]}

\* predicate: (value: T) => boolean
Predicates == {[x \in NonNull |-> Returns(Bool(b))] : b \in BOOLEAN}
                \cup {[x \in NonNull |-> Returns(Bool(Truthy(x)))]}
                \cup {[x \in NonNull |-> Throws(e)] : e \in UserErrors}

\* consumer: (value: T) => void
Consumers == {[x \in NonNull |-> Returns(Undefined)]}
               \cup {[x \in NonNull |-> Throws(e)] : e \in UserErrors}

\* supplier: () => T, given by the outcome of calling it
Suppliers == {Returns(y) : y \in Nullable} \cup {Throws(e) : e \in UserErrors}

\* emptyAction: () => void
EmptyActions == {Returns(Undefined)} \cup {Throws(e) : e \in UserErrors}

\* errorSupplier?: () => Error; NoSupplier is the omitted argument
NoSupplier     == [given |-> FALSE, out |-> Returns(Undefined)]
ErrorSuppliers == {NoSupplier}
                    \cup {[given |-> TRUE, out |-> Returns(e)] : e \in UserErrors}
                    \cup {[given |-> TRUE, out |-> Throws(e)] : e \in UserErrors}

\* one invocation of a user function, as a call-counting probe records it:
\* the function, its arguments, and what it returned or threw
Call(fn, args, out) == [fn |-> fn, args |-> args, out |-> out]

\* --------------------------------------------- how an operation can end
Value(x)    == [kind |-> "value",    val |-> x]
Opt(o)      == [kind |-> "optional", val |-> o]
Raise(e)    == [kind |-> "throw",    val |-> e]
Void        == [kind |-> "void",     val |-> Undefined]
NoResult    == [kind |-> "none",     val |-> Undefined]

\* what an operation did: how it ended and the user functions it invoked
Done(r, c) == [result |-> r, calls |-> c]

\* ------------------------------------------------------- createOptional
createOptional(value) == [value |-> value]

\* mutant of isPresent: tests truthiness (!!value)
isPresentTruthy(value) == Truthy(value)

isPresent(value) == value # Null /\ value # Undefined

isEmpty(value) == value = Null \/ value = Undefined

\* mutant of get: throws on every falsy value (!value)
getTruthy(value) ==
    IF ~Truthy(value) THEN Done(Raise(NoValuePresent), <<>>)
    ELSE Done(Value(value), <<>>)

get(value) ==
    IF isEmpty(value) THEN Done(Raise(NoValuePresent), <<>>)
    ELSE Done(Value(value), <<>>)

unwrap(value) == value

\* mutant of map: a throwing mapper is caught and gives an empty Optional
mapCatches(value, mapper) ==
    IF isEmpty(value) THEN Done(Opt(createOptional(Undefined)), <<>>)
    ELSE LET mapped == mapper[value]
             probe  == <<Call("mapper", <<value>>, mapped)>>
         IN  IF mapped.thrown THEN Done(Opt(createOptional(Undefined)), probe)
             ELSE Done(Opt(createOptional(mapped.val)), probe)

\* mutant of map: short-circuits on every falsy value (!value)
mapTruthy(value, mapper) ==
    IF ~Truthy(value) THEN Done(Opt(createOptional(Undefined)), <<>>)
    ELSE LET mapped == mapper[value]
             probe  == <<Call("mapper", <<value>>, mapped)>>
         IN  IF mapped.thrown THEN Done(Raise(mapped.val), probe)
             ELSE Done(Opt(createOptional(mapped.val)), probe)

\* mutant of map: the mapper is called once to test its result and once to wrap it
mapTwice(value, mapper) ==
    IF isEmpty(value) THEN Done(Opt(createOptional(Undefined)), <<>>)
    ELSE LET mapped == mapper[value]
             probe  == <<Call("mapper", <<value>>, mapped), Call("mapper", <<value>>, mapped)>>
         IN  IF mapped.thrown THEN Done(Raise(mapped.val), <<probe[1]>>)
             ELSE Done(Opt(createOptional(mapped.val)), probe)

\* mutant of map: a null or undefined result keeps the receiver's value (?? value)
mapKeepsOnNull(value, mapper) ==
    IF isEmpty(value) THEN Done(Opt(createOptional(Undefined)), <<>>)
    ELSE LET mapped == mapper[value]
             probe  == <<Call("mapper", <<value>>, mapped)>>
         IN  IF mapped.thrown THEN Done(Raise(mapped.val), probe)
             ELSE IF mapped.val = Null \/ mapped.val = Undefined
                  THEN Done(Opt(createOptional(value)), probe)
                  ELSE Done(Opt(createOptional(mapped.val)), probe)

map(value, mapper) ==
    IF isEmpty(value) THEN Done(Opt(createOptional(Undefined)), <<>>)
    ELSE LET mapped == mapper[value]
             probe  == <<Call("mapper", <<value>>, mapped)>>
         IN  IF mapped.thrown THEN Done(Raise(mapped.val), probe)
             ELSE Done(Opt(createOptional(mapped.val)), probe)

\* mutant of flatMap: an empty receiver hands on its own marker, as filter does
flatMapKeepsMarker(value, mapper) ==
    IF isEmpty(value) THEN Done(Opt(createOptional(value)), <<>>)
    ELSE LET mapped == mapper[value]
             probe  == <<Call("mapper", <<value>>, mapped)>>
         IN  IF mapped.thrown THEN Done(Raise(mapped.val), probe)
             ELSE Done(Opt(createOptional(mapped.val)), probe)

flatMap(value, mapper) ==
    IF isEmpty(value) THEN Done(Opt(createOptional(Undefined)), <<>>)
    ELSE LET mapped == mapper[value]
             probe  == <<Call("mapper", <<value>>, mapped)>>
         IN  IF mapped.thrown THEN Done(Raise(mapped.val), probe)
             ELSE Done(Opt(createOptional(mapped.val)), probe)

\* mutant of filter: the branches of the conditional swapped
filterInverted(value, predicate) ==
    IF isEmpty(value) THEN Done(Opt(createOptional(value)), <<>>)
    ELSE LET test  == predicate[value]
             probe == <<Call("predicate", <<value>>, test)>>
         IN  IF test.thrown THEN Done(Raise(test.val), probe)
             ELSE IF test.val = Bool(TRUE)
                  THEN Done(Opt(createOptional(Undefined)), probe)
                  ELSE Done(Opt(createOptional(value)), probe)

\* mutant of filter: an empty receiver gives createOptional(undefined), as map does
filterCanonical(value, predicate) ==
    IF isEmpty(value) THEN Done(Opt(createOptional(Undefined)), <<>>)
    ELSE LET test  == predicate[value]
             probe == <<Call("predicate", <<value>>, test)>>
         IN  IF test.thrown THEN Done(Raise(test.val), probe)
             ELSE IF test.val = Bool(TRUE)
                  THEN Done(Opt(createOptional(value)), probe)
                  ELSE Done(Opt(createOptional(Undefined)), probe)

filter(value, predicate) ==
    IF isEmpty(value) THEN Done(Opt(createOptional(value)), <<>>)
    ELSE LET test  == predicate[value]
             probe == <<Call("predicate", <<value>>, test)>>
         IN  IF test.thrown THEN Done(Raise(test.val), probe)
             ELSE IF test.val = Bool(TRUE)
                  THEN Done(Opt(createOptional(value)), probe)
                  ELSE Done(Opt(createOptional(Undefined)), probe)

\* mutant of or: falls back to the receiver when the supplier's Optional is empty
orKeepsSelf(value, supplier) ==
    IF isPresent(value) THEN Done(Opt(createOptional(value)), <<>>)
    ELSE LET probe == <<Call("supplier", <<>>, supplier)>>
         IN  IF supplier.thrown THEN Done(Raise(supplier.val), probe)
             ELSE IF isPresent(supplier.val.value) THEN Done(Opt(supplier.val), probe)
                  ELSE Done(Opt(createOptional(value)), probe)

\* mutant of or: the supplier is called before the presence test
orEager(value, supplier) ==
    LET probe == <<Call("supplier", <<>>, supplier)>>
    IN  IF supplier.thrown THEN Done(Raise(supplier.val), probe)
        ELSE IF isPresent(value) THEN Done(Opt(createOptional(value)), probe)
             ELSE Done(Opt(supplier.val), probe)

\* supplier: () => Optional<T>, its return value an Optional object
or(value, supplier) ==
    IF isPresent(value) THEN Done(Opt(createOptional(value)), <<>>)
    ELSE LET probe == <<Call("supplier", <<>>, supplier)>>
         IN  IF supplier.thrown THEN Done(Raise(supplier.val), probe)
             ELSE Done(Opt(supplier.val), probe)

\* mutant of orElse: value || other
orElseTruthy(value, other) ==
    IF Truthy(value) THEN Done(Value(value), <<>>)
    ELSE Done(Value(other), <<>>)

orElse(value, other) ==
    IF isPresent(value) THEN Done(Value(value), <<>>)
    ELSE Done(Value(other), <<>>)

\* mutant of orElseGet: the supplier is called before the presence test
orElseGetEager(value, supplier) ==
    LET probe == <<Call("supplier", <<>>, supplier)>>
    IN  IF supplier.thrown THEN Done(Raise(supplier.val), probe)
        ELSE IF isPresent(value) THEN Done(Value(value), probe)
             ELSE Done(Value(supplier.val), probe)

orElseGet(value, supplier) ==
    IF isPresent(value) THEN Done(Value(value), <<>>)
    ELSE LET probe == <<Call("supplier", <<>>, supplier)>>
         IN  IF supplier.thrown THEN Done(Raise(supplier.val), probe)
             ELSE Done(Value(supplier.val), probe)

\* mutant of orElseThrow: errorSupplier is ignored
orElseThrowDefaultOnly(value, errorSupplier) ==
    IF isEmpty(value) THEN Done(Raise(NoValuePresent), <<>>)
    ELSE Done(Value(value), <<>>)

\* the error errorSupplier returns is thrown; so is one it throws itself
orElseThrow(value, errorSupplier) ==
    IF isEmpty(value)
    THEN IF errorSupplier.given
         THEN Done(Raise(errorSupplier.out.val),
                   <<Call("errorSupplier", <<>>, errorSupplier.out)>>)
         ELSE Done(Raise(NoValuePresent), <<>>)
    ELSE Done(Value(value), <<>>)

ifPresent(value, consumer) ==
    IF isPresent(value)
    THEN LET probe == <<Call("consumer", <<value>>, consumer[value])>>
         IN  IF consumer[value].thrown THEN Done(Raise(consumer[value].val), probe)
             ELSE Done(Void, probe)
    ELSE Done(Void, <<>>)

\* mutant of ifPresentOrElse: the else is missing, emptyAction always runs
ifPresentOrElseNoElse(value, action, emptyAction) ==
    LET last == <<Call("emptyAction", <<>>, emptyAction)>>
    IN  IF isPresent(value)
        THEN LET probe == <<Call("action", <<value>>, action[value])>>
             IN  IF action[value].thrown THEN Done(Raise(action[value].val), probe)
                 ELSE IF emptyAction.thrown THEN Done(Raise(emptyAction.val), probe \o last)
                      ELSE Done(Void, probe \o last)
        ELSE IF emptyAction.thrown THEN Done(Raise(emptyAction.val), last)
             ELSE Done(Void, last)

ifPresentOrElse(value, action, emptyAction) ==
    IF isPresent(value)
    THEN LET probe == <<Call("action", <<value>>, action[value])>>
         IN  IF action[value].thrown THEN Done(Raise(action[value].val), probe)
             ELSE Done(Void, probe)
    ELSE LET probe == <<Call("emptyAction", <<>>, emptyAction)>>
         IN  IF emptyAction.thrown THEN Done(Raise(emptyAction.val), probe)
             ELSE Done(Void, probe)

\* mutant of equals: compares the raw values only, null and undefined differ
equalsRaw(value, other) == Done(Value(Bool(value = unwrap(other))), <<>>)

\* other is the value the other Optional wraps: other.isPresent(), other.unwrap()
equals(value, other) ==
    IF isPresent(value) /\ isPresent(other)
    THEN Done(Value(Bool(value = unwrap(other))), <<>>)
    ELSE Done(Value(Bool(isEmpty(value) /\ isEmpty(other))), <<>>)

\* ------------------------------------------------- the Optional factories
Optional_of(value) == createOptional(value)

Optional_empty == createOptional(Undefined)

Optional_ofNullable(value) == createOptional(value)

\* mutant of optionalPath: guards the object with a truthiness test (obj ? ... : empty)
optionalPathTruthy(obj, accessor) ==
    IF Truthy(obj) THEN map(Optional_of(obj).value, accessor)
    ELSE Done(Opt(Optional_empty), <<>>)

\* optionalPath: Optional.of(obj).map(accessor)
optionalPath(obj, accessor) == map(Optional_of(obj).value, accessor)

\* ------------------------------------------------------------------ state
VARIABLES
    objs,     \* the Optional objects created so far, in creation order
    op,       \* the operation called last
    recv,     \* the index in objs of the object it was called on (0: none)
    arg,      \* the argument it was given
    result,   \* how it ended
    calls,    \* the user functions it invoked, in order
    adapter,  \* which adapter is under test: refAsOptional or useReactiveOptional
    cell,     \* source.value / valueRef.value, the content of the observable cell
    cache,    \* the computed view: the Optional it computed last, and whether
              \* the cell was written since (dirty)
    tasks,    \* the setAsync / orElseGetAsync calls made, in call order
    microtasks, \* the calls whose awaited promise has settled and whose
              \* continuation waits to run, first in first out
    console,  \* the reports console.error received
    settled,  \* the calls in the order their awaited promises settled
    ready,    \* the calls in the order their continuations were queued
    steps,    \* the chain written so far: each step's operation and function
    maybes,   \* the useMaybe objects of the same chain, in creation order
    mcalls    \* the user functions the useMaybe chain invoked, in order

optionalVars == <<objs, op, recv, arg, result, calls>>

reactiveVars == <<adapter, cell, cache>>

asyncVars == <<tasks, microtasks, console>>

orderVars == <<settled, ready>>

chainVars == <<steps, maybes, mcalls>>

vars == <<objs, op, recv, arg, result, calls, adapter, cell, cache, tasks, microtasks, console,
          settled, ready, steps, maybes, mcalls>>

Init ==
    /\ objs = <<>>
    /\ op = "none"
    /\ recv = 0
    /\ arg = Undefined
    /\ result = NoResult
    /\ calls = <<>>
    /\ adapter = "none"
    /\ cell = Undefined
    /\ cache = [dirty |-> TRUE, value |-> Optional_empty]
    /\ tasks = <<>>
    /\ microtasks = <<>>
    /\ console = <<>>
    /\ settled = <<>>
    /\ ready = <<>>
    /\ steps = <<>>
    /\ maybes = <<>>
    /\ mcalls = <<>>

\* a factory call: one new object
Construct(name, a, o) ==
    /\ Len(objs) < MaxObjs
    /\ objs' = Append(objs, o)
    /\ op' = name
    /\ recv' = 0
    /\ arg' = a
    /\ result' = Opt(o)
    /\ calls' = <<>>
    /\ UNCHANGED <<reactiveVars, asyncVars, orderVars, chainVars>>

\* mutant of Invoke: the operation stores its result in the receiver and returns it
InvokeInPlace(name, r, a, d) ==
    /\ op' = name
    /\ recv' = r
    /\ arg' = a
    /\ result' = d.result
    /\ calls' = d.calls
    /\ objs' = IF d.result.kind = "optional" THEN [objs EXCEPT ![r] = d.result.val] ELSE objs
    /\ UNCHANGED <<reactiveVars, asyncVars, orderVars, chainVars>>

\* a method call on objs[r] that did d; the Optional it returns is a new object
Invoke(name, r, a, d) ==
    /\ op' = name
    /\ recv' = r
    /\ arg' = a
    /\ result' = d.result
    /\ calls' = d.calls
    /\ objs' = IF d.result.kind = "optional" THEN Append(objs, d.result.val) ELSE objs
    /\ UNCHANGED <<reactiveVars, asyncVars, orderVars, chainVars>>

CallOf == \E v \in Nullable : Construct("of", v, Optional_of(v))

CallEmpty == Construct("empty", Undefined, Optional_empty)

CallOfNullable == \E v \in Nullable : Construct("ofNullable", v, Optional_ofNullable(v))

CallIsPresent ==
    \E r \in DOMAIN objs :
        Invoke("isPresent", r, Undefined, Done(Value(Bool(isPresent(objs[r].value))), <<>>))

CallIsEmpty ==
    \E r \in DOMAIN objs :
        Invoke("isEmpty", r, Undefined, Done(Value(Bool(isEmpty(objs[r].value))), <<>>))

CallGet ==
    \E r \in DOMAIN objs : Invoke("get", r, Undefined, get(objs[r].value))

CallUnwrap ==
    \E r \in DOMAIN objs :
        Invoke("unwrap", r, Undefined, Done(Value(unwrap(objs[r].value)), <<>>))

CallMap ==
    /\ Len(objs) < MaxObjs
    /\ \E r \in DOMAIN objs : \E mapper \in Mappers :
           Invoke("map", r, mapper, map(objs[r].value, mapper))

CallFlatMap ==
    /\ Len(objs) < MaxObjs
    /\ \E r \in DOMAIN objs : \E mapper \in Mappers :
           Invoke("flatMap", r, mapper, flatMap(objs[r].value, mapper))

CallFilter ==
    /\ Len(objs) < MaxObjs
    /\ \E r \in DOMAIN objs : \E predicate \in Predicates :
           Invoke("filter", r, predicate, filter(objs[r].value, predicate))

CallOr ==
    /\ Len(objs) < MaxObjs
    /\ \E r \in DOMAIN objs :
           \E supplier \in {Returns(Optional_of(y)) : y \in Nullable}
                             \cup {Throws(e) : e \in UserErrors} :
               Invoke("or", r, supplier, or(objs[r].value, supplier))

CallOrElse ==
    \E r \in DOMAIN objs : \E other \in NonNull :
        Invoke("orElse", r, other, orElse(objs[r].value, other))

CallOrElseGet ==
    \E r \in DOMAIN objs : \E supplier \in Suppliers :
        Invoke("orElseGet", r, supplier, orElseGet(objs[r].value, supplier))

CallOrElseThrow ==
    \E r \in DOMAIN objs : \E errorSupplier \in ErrorSuppliers :
        Invoke("orElseThrow", r, errorSupplier, orElseThrow(objs[r].value, errorSupplier))

CallIfPresent ==
    \E r \in DOMAIN objs : \E consumer \in Consumers :
        Invoke("ifPresent", r, consumer, ifPresent(objs[r].value, consumer))

CallIfPresentOrElse ==
    \E r \in DOMAIN objs : \E action \in Consumers : \E emptyAction \in EmptyActions :
        Invoke("ifPresentOrElse", r, <<action, emptyAction>>,
               ifPresentOrElse(objs[r].value, action, emptyAction))

CallEquals ==
    \E r \in DOMAIN objs : \E o \in DOMAIN objs :
        Invoke("equals", r, o, equals(objs[r].value, objs[o].value))

\* optionalPath(obj, accessor): the Optional of obj and the one map returns are new
CallOptionalPath ==
    /\ Len(objs) + 2 <= MaxObjs
    /\ \E obj \in Nullable : \E accessor \in Mappers :
           LET d == optionalPath(obj, accessor)
           IN  /\ op' = "optionalPath"
               /\ recv' = 0
               /\ arg' = <<obj, accessor>>
               /\ result' = d.result
               /\ calls' = d.calls
               /\ objs' = IF d.result.kind = "optional"
                          THEN objs \o <<Optional_of(obj), d.result.val>>
                          ELSE Append(objs, Optional_of(obj))
               /\ UNCHANGED <<reactiveVars, asyncVars, orderVars, chainVars>>

Next ==
    \/ CallOf
    \/ CallEmpty
    \/ CallOfNullable
    \/ CallIsPresent
    \/ CallIsEmpty
    \/ CallGet
    \/ CallUnwrap
    \/ CallMap
    \/ CallFlatMap
    \/ CallFilter
    \/ CallOr
    \/ CallOrElse
    \/ CallOrElseGet
    \/ CallOrElseThrow
    \/ CallIfPresent
    \/ CallIfPresentOrElse
    \/ CallEquals
    \/ CallOptionalPath

Spec == Init /\ [][Next]_vars

\* the value the receiver of the last operation wraps
Receiver == objs[recv].value

\* the last operation invoked a user function that threw
UserFunctionThrew == calls # <<>> /\ calls[Len(calls)].out.thrown

\* ------------------------------------------------------------- promises
\* a promise: pending, resolved with a value, or rejected with an error
Pending     == [state |-> "pending",  val |-> Undefined]
Resolved(v) == [state |-> "resolved", val |-> v]
Rejected(e) == [state |-> "rejected", val |-> e]
NoPromise   == [state |-> "none",     val |-> Undefined]

\* the promises a caller can hand over: still pending, or settled already
Promises == {Pending} \cup {Resolved(v) : v \in CellValues}
                      \cup {Rejected(e) : e \in UserErrors}

\* supplier: () => Promise<T>; it returns a promise or throws before it does
AsyncSuppliers == {Returns(p) : p \in Promises} \cup {Throws(e) : e \in UserErrors}

\* one call of an async function: the Optional value it was given (orElseGetAsync),
\* the promise it awaits, the state of the promise it returned and the value
\* or error that one settled with, and how often it invoked its supplier
Task(kind, value, promise, status, val, supplied) ==
    [kind |-> kind, value |-> value, promise |-> promise,
     status |-> status, val |-> val, supplied |-> supplied]

\* what an action of the async part records as the last operation
Event(name, a) ==
    /\ op' = name
    /\ arg' = a
    /\ result' = NoResult
    /\ calls' = <<>>
    /\ UNCHANGED <<objs, recv, chainVars>>

\* mutant of Await: only a resolution resumes the call (then without catch)
AwaitResolvedOnly(i, promise) ==
    /\ microtasks' = IF promise.state = "resolved"
                     THEN Append(microtasks, i)
                     ELSE microtasks
    /\ ready' = IF promise.state = "resolved"
                THEN Append(ready, i)
                ELSE ready

\* the continuation of an await runs as a microtask once the promise has settled
Await(i, promise) ==
    /\ microtasks' = IF promise.state \in {"resolved", "rejected"}
                     THEN Append(microtasks, i)
                     ELSE microtasks
    /\ ready' = IF promise.state \in {"resolved", "rejected"}
                THEN Append(ready, i)
                ELSE ready

\* the promise handed to call i settled at some moment before the call, if it
\* is settled at all: before or after the promises of the calls made earlier
AwaitedSince(i, promise) ==
    IF promise.state \in {"resolved", "rejected"}
    THEN \E k \in 0..Len(settled) :
             settled' = SubSeq(settled, 1, k) \o <<i>> \o SubSeq(settled, k + 1, Len(settled))
    ELSE settled' = settled

\* ------------------------------------------------------- orElseGetAsync
\* mutant of orElseGetAsync: the supplier is called before the presence test
orElseGetAsyncEager(value, supplier) ==
    IF supplier.thrown
    THEN Task("orElseGetAsync", value, NoPromise, "rejected", supplier.val, 1)
    ELSE IF isPresent(value)
         THEN Task("orElseGetAsync", value, NoPromise, "fulfilled", get(value).result.val, 1)
         ELSE Task("orElseGetAsync", value, supplier.val, "awaiting", Undefined, 1)

\* orElseGetAsync(optional, supplier) up to its first suspension:
\* optional.isPresent() ? optional.get() : await supplier()
orElseGetAsync(value, supplier) ==
    IF isPresent(value)
    THEN Task("orElseGetAsync", value, NoPromise, "fulfilled", get(value).result.val, 0)
    ELSE IF supplier.thrown
         THEN Task("orElseGetAsync", value, NoPromise, "rejected", supplier.val, 1)
         ELSE Task("orElseGetAsync", value, supplier.val, "awaiting", Undefined, 1)

\* mutant of AwaitedSupplier: a rejection is caught and undefined returned
AwaitedSupplierCaught(task) ==
    IF task.promise.state = "resolved"
    THEN [task EXCEPT !.status = "fulfilled", !.val = task.promise.val]
    ELSE [task EXCEPT !.status = "fulfilled", !.val = Undefined]

\* orElseGetAsync after await: the value is returned, the rejection rethrown
AwaitedSupplier(task) ==
    IF task.promise.state = "resolved"
    THEN [task EXCEPT !.status = "fulfilled", !.val = task.promise.val]
    ELSE [task EXCEPT !.status = "rejected", !.val = task.promise.val]

CallOrElseGetAsync ==
    /\ Len(tasks) < MaxCalls
    /\ \E value \in CellValues : \E supplier \in AsyncSuppliers :
           LET task == orElseGetAsync(value, supplier)
           IN  /\ tasks' = Append(tasks, task)
               /\ Await(Len(tasks) + 1, task.promise)
               /\ AwaitedSince(Len(tasks) + 1, task.promise)
               /\ Event("orElseGetAsync", <<value, supplier>>)
    /\ UNCHANGED <<reactiveVars, console>>

\* a pending promise is resolved or rejected by whoever owns it
Settle ==
    \E i \in DOMAIN tasks :
        /\ tasks[i].promise.state = "pending"
        /\ \E promise \in Promises \ {Pending} :
               /\ tasks' = [tasks EXCEPT ![i].promise = promise]
               /\ Await(i, promise)
        /\ settled' = Append(settled, i)
        /\ Event("settle", i)
        /\ UNCHANGED <<reactiveVars, console>>

ResumeOrElseGetAsync ==
    /\ microtasks # <<>>
    /\ tasks[Head(microtasks)].kind = "orElseGetAsync"
    /\ tasks' = [tasks EXCEPT ![Head(microtasks)] = AwaitedSupplier(tasks[Head(microtasks)])]
    /\ microtasks' = Tail(microtasks)
    /\ Event("resume", Head(microtasks))
    /\ UNCHANGED <<reactiveVars, console, orderVars>>

NextAsync ==
    \/ CallOrElseGetAsync
    \/ Settle
    \/ ResumeOrElseGetAsync

\* orElseGetAsync calls on Optionals, their suppliers' promises settling in any order
SpecAsync == Init /\ [][NextAsync]_vars

\* ------------------------------------- refAsOptional, useReactiveOptional
\* refAsOptional: get: () => Optional.of(source.value)
refAsOptional_get(source) == Optional_of(source)

\* refAsOptional: set: source.value = newOptional.unwrap()
refAsOptional_set(newOptional) == unwrap(newOptional.value)

\* useReactiveOptional: get: () => Optional.of(valueRef.value)
optional_get(valueRef) == Optional_of(valueRef)

\* mutant of optional_set: an empty Optional is always stored as undefined
optional_setCanonical(newOptional) ==
    IF isPresent(newOptional.value) THEN unwrap(newOptional.value) ELSE Undefined

\* useReactiveOptional: set: valueRef.value = newOptional.unwrap()
optional_set(newOptional) == unwrap(newOptional.value)

\* the getter and the setter of the adapter under test
Getter(source) ==
    IF adapter = "refAsOptional" THEN refAsOptional_get(source) ELSE optional_get(source)

Setter(newOptional) ==
    IF adapter = "refAsOptional" THEN refAsOptional_set(newOptional)
    ELSE optional_set(newOptional)

\* reading computed.value: the getter runs again only after the cell was written
ComputedGet == IF cache.dirty THEN Getter(cell) ELSE cache.value

\* mutant of WriteRef: the write does not reach the computed view
WriteRefNoTrigger(v) ==
    /\ cell' = v
    /\ cache' = cache

\* an assignment to the cell: a changed content marks the computed view dirty
WriteRef(v) ==
    /\ cell' = v
    /\ cache' = IF v # cell THEN [cache EXCEPT !.dirty = TRUE] ELSE cache

\* a report to console.error
Report(error) == [message |-> "useReactiveOptional setAsync failed:", error |-> error]

\* mutant of SetAsyncOutcome: a falsy result is stored as undefined (result || undefined)
SetAsyncOutcomeTruthy(promise) ==
    IF promise.state = "resolved"
    THEN [value |-> IF Truthy(promise.val) THEN promise.val ELSE Undefined, reports |-> <<>>,
          status |-> "fulfilled", val |-> Undefined]
    ELSE [value |-> Undefined, reports |-> <<Report(promise.val)>>,
          status |-> "fulfilled", val |-> Undefined]

\* mutant of SetAsyncOutcome: the catch block clears the cell without a report
SetAsyncOutcomeSilent(promise) ==
    IF promise.state = "resolved"
    THEN [value |-> promise.val, reports |-> <<>>,
          status |-> "fulfilled", val |-> Undefined]
    ELSE [value |-> Undefined, reports |-> <<>>,
          status |-> "fulfilled", val |-> Undefined]

\* mutant of SetAsyncOutcome: the catch block rethrows after it cleared the cell
SetAsyncOutcomeRethrows(promise) ==
    IF promise.state = "resolved"
    THEN [value |-> promise.val, reports |-> <<>>,
          status |-> "fulfilled", val |-> Undefined]
    ELSE [value |-> Undefined, reports |-> <<Report(promise.val)>>,
          status |-> "rejected", val |-> promise.val]

\* setAsync after await promise: what it stores in the cell, what it reports,
\* and how the promise it returned settles (Promise<void>: nothing thrown)
SetAsyncOutcome(promise) ==
    IF promise.state = "resolved"
    THEN [value |-> promise.val, reports |-> <<>>,
          status |-> "fulfilled", val |-> Undefined]
    ELSE [value |-> Undefined, reports |-> <<Report(promise.val)>>,
          status |-> "fulfilled", val |-> Undefined]

\* refAsOptional(source) over a cell of any content, or
\* useReactiveOptional(initialValue), initialValue undefined by default
InitReactive ==
    /\ objs = <<>>
    /\ op = "none"
    /\ recv = 0
    /\ arg = Undefined
    /\ result = NoResult
    /\ calls = <<>>
    /\ adapter \in {"refAsOptional", "useReactiveOptional"}
    /\ cell \in CellValues
    /\ cache = [dirty |-> TRUE, value |-> Optional_empty]
    /\ tasks = <<>>
    /\ microtasks = <<>>
    /\ console = <<>>
    /\ settled = <<>>
    /\ ready = <<>>
    /\ steps = <<>>
    /\ maybes = <<>>
    /\ mcalls = <<>>

\* source.value = v / reactive.ref.value = v, by code that holds the cell
SetRefValue ==
    /\ \E v \in CellValues :
           /\ WriteRef(v)
           /\ Event("ref.set", v)
    /\ UNCHANGED <<adapter, asyncVars, orderVars>>

\* opt.value = newOptional / reactive.optional.value = newOptional
SetOptionalValue ==
    /\ \E newOptional \in {Optional_of(v) : v \in CellValues} \cup {Optional_empty} :
           /\ WriteRef(Setter(newOptional))
           /\ Event("optional.set", newOptional)
    /\ UNCHANGED <<adapter, asyncVars, orderVars>>

\* a read of opt.value / reactive.optional.value
GetOptionalValue ==
    /\ cache' = [dirty |-> FALSE, value |-> ComputedGet]
    /\ op' = "optional.get"
    /\ arg' = Undefined
    /\ result' = Opt(ComputedGet)
    /\ calls' = <<>>
    /\ UNCHANGED <<objs, recv, adapter, cell, asyncVars, orderVars, chainVars>>

\* mutant of CallSetAsync: the cell is cleared while the promise is awaited
CallSetAsyncClears ==
    /\ adapter = "useReactiveOptional"
    /\ Len(tasks) < MaxCalls
    /\ \E promise \in Promises :
           /\ tasks' = Append(tasks, Task("setAsync", Undefined, promise, "awaiting", Undefined, 0))
           /\ Await(Len(tasks) + 1, promise)
           /\ AwaitedSince(Len(tasks) + 1, promise)
           /\ Event("setAsync", promise)
    /\ WriteRef(Undefined)
    /\ UNCHANGED <<adapter, console>>

\* reactive.setAsync(promise) up to await promise
CallSetAsync ==
    /\ adapter = "useReactiveOptional"
    /\ Len(tasks) < MaxCalls
    /\ \E promise \in Promises :
           /\ tasks' = Append(tasks, Task("setAsync", Undefined, promise, "awaiting", Undefined, 0))
           /\ Await(Len(tasks) + 1, promise)
           /\ AwaitedSince(Len(tasks) + 1, promise)
           /\ Event("setAsync", promise)
    /\ UNCHANGED <<reactiveVars, console>>

\* mutant of ResumeSetAsync: only the call issued last may write the cell
ResumeSetAsyncLatestOnly ==
    /\ microtasks # <<>>
    /\ tasks[Head(microtasks)].kind = "setAsync"
    /\ LET i == Head(microtasks)
           outcome == SetAsyncOutcome(tasks[i].promise)
       IN  /\ console' = console \o [k \in DOMAIN outcome.reports |->
                                        [task |-> i, report |-> outcome.reports[k]]]
           /\ WriteRef(IF i = Len(tasks) THEN outcome.value ELSE cell)
           /\ tasks' = [tasks EXCEPT ![i].status = outcome.status, ![i].val = outcome.val]
           /\ Event("resume", i)
    /\ microtasks' = Tail(microtasks)
    /\ UNCHANGED <<adapter, orderVars>>

\* setAsync after await promise, then the promise it returned is fulfilled
ResumeSetAsync ==
    /\ microtasks # <<>>
    /\ tasks[Head(microtasks)].kind = "setAsync"
    /\ LET i == Head(microtasks)
           outcome == SetAsyncOutcome(tasks[i].promise)
       IN  /\ console' = console \o [k \in DOMAIN outcome.reports |->
                                        [task |-> i, report |-> outcome.reports[k]]]
           /\ WriteRef(outcome.value)
           /\ tasks' = [tasks EXCEPT ![i].status = outcome.status, ![i].val = outcome.val]
           /\ Event("resume", i)
    /\ microtasks' = Tail(microtasks)
    /\ UNCHANGED <<adapter, orderVars>>

NextReactive ==
    \/ SetRefValue
    \/ SetOptionalValue
    \/ GetOptionalValue
    \/ CallSetAsync
    \/ Settle
    \/ ResumeSetAsync

\* an adapter over one cell: cell writes, view writes and reads, setAsync calls
SpecReactive == InitReactive /\ [][NextReactive]_vars

\* a useReactiveOptional() container, its cell undefined or as initialised
InitRun ==
    /\ InitReactive
    /\ adapter = "useReactiveOptional"

\* no call of this kind was made so far
NotYetCalled(kind) == \A i \in DOMAIN tasks : tasks[i].kind # kind

\* the one setAsync call of the run
RunSetAsync == NotYetCalled("setAsync") /\ CallSetAsync

\* the one orElseGetAsync call of the run
RunOrElseGetAsync == NotYetCalled("orElseGetAsync") /\ CallOrElseGetAsync

NextRun ==
    \/ RunSetAsync
    \/ RunOrElseGetAsync
    \/ Settle
    \/ ResumeSetAsync
    \/ ResumeOrElseGetAsync

\* a setAsync and an orElseGetAsync call side by side; a queued continuation is
\* always run in the end (the microtask queue is drained), a pending promise
\* may stay pending for ever
SpecRun ==
    /\ InitRun
    /\ [][NextRun]_vars
    /\ WF_vars(ResumeSetAsync)
    /\ WF_vars(ResumeOrElseGetAsync)

\* --------------------------------------------------------------- useMaybe
\* new Error(message): an Error is known by its message, a string by its
\* length; the codes 0 and 1 are NoValuePresent and the user's Error instance
NewError(message) == Err(2 + message.v)

\* 'Value is not present'
ValueIsNotPresent == Str(20)

\* how an operation of useMaybe can end: with a MaybeOperations object
Maybe(m) == [kind |-> "maybe", val |-> m]

\* mutant of useMaybe: hasValue and isEmpty test truthiness (!!value)
useMaybeTruthy(value) ==
    [unwrap   |-> value,
     hasValue |-> Truthy(value),
     isEmpty  |-> ~Truthy(value)]

\* useMaybe(value): the computed refs unwrap, hasValue and isEmpty, read at once
useMaybe(value) ==
    [unwrap   |-> value,
     hasValue |-> value # Null /\ value # Undefined,
     isEmpty  |-> value = Null \/ value = Undefined]

\* map: useMaybe(computed(() => hasValue.value ? fn(value) : undefined).value)
maybe_map(m, fn) ==
    IF m.hasValue
    THEN LET mappedValue == fn[m.unwrap]
             probe       == <<Call("fn", <<m.unwrap>>, mappedValue)>>
         IN  IF mappedValue.thrown THEN Done(Raise(mappedValue.val), probe)
             ELSE Done(Maybe(useMaybe(mappedValue.val)), probe)
    ELSE Done(Maybe(useMaybe(Undefined)), <<>>)

\* flatMap: the same computation as map
maybe_flatMap(m, fn) ==
    IF m.hasValue
    THEN LET flatMappedValue == fn[m.unwrap]
             probe           == <<Call("fn", <<m.unwrap>>, flatMappedValue)>>
         IN  IF flatMappedValue.thrown THEN Done(Raise(flatMappedValue.val), probe)
             ELSE Done(Maybe(useMaybe(flatMappedValue.val)), probe)
    ELSE Done(Maybe(useMaybe(Undefined)), <<>>)

\* filter: hasValue.value && predicate(value) ? value : undefined
maybe_filter(m, predicate) ==
    IF m.hasValue
    THEN LET test  == predicate[m.unwrap]
             probe == <<Call("predicate", <<m.unwrap>>, test)>>
         IN  IF test.thrown THEN Done(Raise(test.val), probe)
             ELSE IF Truthy(test.val)
                  THEN Done(Maybe(useMaybe(m.unwrap)), probe)
                  ELSE Done(Maybe(useMaybe(Undefined)), probe)
    ELSE Done(Maybe(useMaybe(Undefined)), <<>>)

\* orElse(defaultValue).value: hasValue.value ? value : defaultValue
maybe_orElse(m, defaultValue) ==
    Done(Value(IF m.hasValue THEN m.unwrap ELSE defaultValue), <<>>)

\* error?: string | Error, undefined when omitted
ErrorArguments == {Undefined} \cup {Str(n) : n \in 0..MaxCode} \cup UserErrors

\* mutant of getOrThrow: throws on every falsy value (!maybeValue.value)
getOrThrowTruthy(m, error) ==
    IF ~Truthy(m.unwrap)
    THEN IF error.t = "error" THEN Done(Raise(error), <<>>)
         ELSE Done(Raise(NewError(IF Truthy(error) THEN error ELSE ValueIsNotPresent)), <<>>)
    ELSE Done(Value(m.unwrap), <<>>)

\* getOrThrow: if (!hasValue.value) { if (error instanceof Error) throw error;
\* throw new Error(error || 'Value is not present') } return maybeValue.value
getOrThrow(m, error) ==
    IF ~m.hasValue
    THEN IF error.t = "error" THEN Done(Raise(error), <<>>)
         ELSE Done(Raise(NewError(IF Truthy(error) THEN error ELSE ValueIsNotPresent)), <<>>)
    ELSE Done(Value(m.unwrap), <<>>)

\* useMaybePath: useMaybe(obj).map(accessor)
useMaybePath(obj, accessor) == maybe_map(useMaybe(obj), accessor)

\* ----------------------------------------------------------------- chains
\* the functions of a chain: constants, the identity, v => !v, a thrower, and
\* v => v || null
ChainMappers == {[x \in NonNull |-> Returns(y)] : y \in CellValues}
                  \cup {[x \in NonNull |-> Returns(x)]}
                  \cup {[x \in NonNull |-> Returns(Bool(~Truthy(x)))]}
                  \cup {[x \in NonNull |-> Throws(e)] : e \in UserErrors}
                  \cup {[x \in NonNull |-> IF Truthy(x) THEN Returns(x) ELSE Returns(Null)]}

\* the invocations of step n, as the probes of a whole chain record them
AtStep(n, probe) == [k \in DOMAIN probe |-> [step |-> n, call |-> probe[k]]]

\* Optional.of(v) and useMaybe(v), the heads of the same chain written twice
InitChain ==
    \E v \in Nullable :
        /\ objs = <<Optional_of(v)>>
        /\ maybes = <<useMaybe(v)>>
        /\ steps = <<>>
        /\ op = "of"
        /\ recv = 0
        /\ arg = v
        /\ result = Opt(Optional_of(v))
        /\ calls = <<>>
        /\ mcalls = <<>>
        /\ adapter = "none"
        /\ cell = Undefined
        /\ cache = [dirty |-> TRUE, value |-> Optional_empty]
        /\ tasks = <<>>
        /\ microtasks = <<>>
        /\ console = <<>>
        /\ settled = <<>>
        /\ ready = <<>>

\* one more step .name(fn) on both chains: d is what the Optional's method did
\* and md what the useMaybe one did; a chain whose step threw has ended
Chain(name, fn, d, md) ==
    /\ steps' = Append(steps, [op |-> name, fn |-> fn])
    /\ op' = name
    /\ recv' = Len(objs)
    /\ arg' = fn
    /\ result' = d.result
    /\ calls' = calls \o AtStep(Len(steps) + 1, d.calls)
    /\ objs' = IF d.result.kind = "optional" THEN Append(objs, d.result.val) ELSE objs
    /\ mcalls' = mcalls \o AtStep(Len(steps) + 1, md.calls)
    /\ maybes' = IF md.result.kind = "maybe" THEN Append(maybes, md.result.val) ELSE maybes
    /\ UNCHANGED <<reactiveVars, asyncVars, orderVars>>

\* both chains have a result to call the next step on
ChainGoesOn ==
    /\ Len(steps) < MaxSteps
    /\ Len(objs) = Len(steps) + 1
    /\ Len(maybes) = Len(steps) + 1

ChainMap ==
    /\ ChainGoesOn
    /\ \E fn \in ChainMappers :
           Chain("map", fn, map(objs[Len(objs)].value, fn), maybe_map(maybes[Len(maybes)], fn))

ChainFlatMap ==
    /\ ChainGoesOn
    /\ \E fn \in ChainMappers :
           Chain("flatMap", fn, flatMap(objs[Len(objs)].value, fn),
                 maybe_flatMap(maybes[Len(maybes)], fn))

ChainFilter ==
    /\ ChainGoesOn
    /\ \E predicate \in Predicates :
           Chain("filter", predicate, filter(objs[Len(objs)].value, predicate),
                 maybe_filter(maybes[Len(maybes)], predicate))

\* a call on the chain's last result that adds no step
ChainEnd(name, a, d) ==
    /\ op' = name
    /\ recv' = Len(maybes)
    /\ arg' = a
    /\ result' = d.result
    /\ UNCHANGED <<objs, calls, reactiveVars, asyncVars, orderVars, chainVars>>

\* .orElse(d) on the Optional chain's result
ChainOrElse ==
    /\ Len(objs) = Len(steps) + 1
    /\ Len(maybes) = Len(steps) + 1
    /\ \E other \in {Num(n) : n \in 0..MaxCode} :
           ChainEnd("orElse", other, orElse(objs[Len(objs)].value, other))

\* .getOrThrow(error) on the useMaybe chain's result
ChainGetOrThrow ==
    /\ Len(maybes) = Len(steps) + 1
    /\ \E error \in ErrorArguments :
           ChainEnd("getOrThrow", error, getOrThrow(maybes[Len(maybes)], error))

NextChain ==
    \/ ChainMap
    \/ ChainFlatMap
    \/ ChainFilter
    \/ ChainOrElse
    \/ ChainGetOrThrow

\* one chain of map / flatMap / filter steps, written on Optional.of(v) and on
\* useMaybe(v) alike, with orElse and getOrThrow calls on its results
SpecChain == InitChain /\ [][NextChain]_vars

\* null and undefined, the two absence markers
IsAbsenceMarker(x) == x = Null \/ x = Undefined

\* the last operation returned an Optional wrapping x
ReturnedOptional(x) == result.kind = "optional" /\ result.val.value = x

\* the last operation returned an Absent Optional
ReturnedAbsent == result.kind = "optional" /\ IsAbsenceMarker(result.val.value)

\* ----------------------------------------------------------------- claims

\* C1: Optional.of(v) and Optional.ofNullable(v) are Present iff v is neither
\* null nor undefined, whatever its truthiness; isEmpty() is the negation of
\* isPresent(); unwrap() returns exactly v; Optional.empty() is Absent.
C1_OfPresence ==
    /\ op \in {"of", "ofNullable"} =>
           /\ result.kind = "optional"
           /\ isPresent(result.val.value) = ~IsAbsenceMarker(arg)
           /\ isEmpty(result.val.value) = ~isPresent(result.val.value)
           /\ unwrap(result.val.value) = arg
    /\ op = "empty" =>
           /\ result.kind = "optional"
           /\ isEmpty(result.val.value)
           /\ ~isPresent(result.val.value)
    /\ op = "isPresent" => result = Value(Bool(~IsAbsenceMarker(Receiver)))
    /\ op = "isEmpty" => result = Value(Bool(IsAbsenceMarker(Receiver)))
    /\ op = "unwrap" => result = Value(Receiver)

\* a falsy value was wrapped and is Present
C1_Witness ==
    /\ op = "of"
    /\ arg \in {Num(0), Str(0), Bool(FALSE)}
    /\ isPresent(result.val.value)

\* C2: map on an Absent receiver returns Absent and never invokes fn; on
\* Present(v) it invokes fn exactly once, with v, and returns
\* Optional.of(fn(v)): Present iff fn(v) is neither null nor undefined.
C2_Map ==
    op = "map" =>
        IF IsAbsenceMarker(Receiver)
        THEN ReturnedAbsent /\ calls = <<>>
        ELSE /\ calls = <<Call("mapper", <<Receiver>>, arg[Receiver])>>
             /\ ~arg[Receiver].thrown =>
                    /\ result = Opt(Optional_of(arg[Receiver].val))
                    /\ isPresent(result.val.value) = ~IsAbsenceMarker(arg[Receiver].val)

\* map of a falsy Present value, by a function that returns a Present value
C2_Witness ==
    /\ op = "map"
    /\ Receiver \in {Num(0), Str(0), Bool(FALSE)}
    /\ Len(calls) = 1
    /\ result.kind = "optional"
    /\ ~IsAbsenceMarker(result.val.value)

\* C3: filter on an Absent receiver returns Absent and never invokes pred; on
\* Present(v) it returns Present(v) when pred(v) is true, Absent when false.
C3_Filter ==
    op = "filter" =>
        IF IsAbsenceMarker(Receiver)
        THEN ReturnedAbsent /\ calls = <<>>
        ELSE /\ arg[Receiver] = Returns(Bool(TRUE)) => ReturnedOptional(Receiver)
             /\ arg[Receiver] = Returns(Bool(FALSE)) => ReturnedAbsent

\* a Present value the predicate rejected
C3_Witness ==
    /\ op = "filter"
    /\ ~IsAbsenceMarker(Receiver)
    /\ arg[Receiver] = Returns(Bool(FALSE))
    /\ ReturnedAbsent

\* C4: map and flatMap follow the same rule: on every receiver and for every
\* function f, also one returning null or undefined, they end the same way,
\* with the same presence and unwrap() value, and invoke f as often.
C4_MapFlatMapSame ==
    /\ op = "flatMap" =>
           LET m == map(Receiver, arg)
           IN  /\ result.kind = m.result.kind
               /\ result.kind = "optional" =>
                      /\ unwrap(result.val.value) = unwrap(m.result.val.value)
                      /\ IsAbsenceMarker(result.val.value)
                             = IsAbsenceMarker(m.result.val.value)
               /\ Len(calls) = Len(m.calls)
    /\ op = "map" =>
           LET m == flatMap(Receiver, arg)
           IN  /\ result.kind = m.result.kind
               /\ result.kind = "optional" =>
                      /\ unwrap(result.val.value) = unwrap(m.result.val.value)
                      /\ IsAbsenceMarker(result.val.value)
                             = IsAbsenceMarker(m.result.val.value)
               /\ Len(calls) = Len(m.calls)

\* flatMap of a Present value by a function that returned null
C4_Witness ==
    /\ op = "flatMap"
    /\ ~IsAbsenceMarker(Receiver)
    /\ Len(calls) = 1
    /\ ReturnedOptional(Null)

\* C5: orElse(fallback) returns the held value whenever the receiver is
\* Present, falsy values included, and fallback when it is Absent.
C5_OrElse ==
    op = "orElse" =>
        /\ ~IsAbsenceMarker(Receiver) => result = Value(Receiver)
        /\ IsAbsenceMarker(Receiver) => result = Value(arg)
        /\ calls = <<>>

\* a falsy held value was kept, the fallback being another value
C5_Witness ==
    /\ op = "orElse"
    /\ Receiver \in {Num(0), Str(0), Bool(FALSE)}
    /\ arg # Receiver
    /\ result = Value(Receiver)

\* C6: orElseGet invokes supplier iff the receiver is Absent, then exactly
\* once, and returns its result; on a Present receiver it returns the held
\* value and supplier is not invoked.
C6_OrElseGetLazy ==
    op = "orElseGet" =>
        IF IsAbsenceMarker(Receiver)
        THEN /\ calls = <<Call("supplier", <<>>, arg)>>
             /\ ~arg.thrown => result = Value(arg.val)
        ELSE /\ calls = <<>>
             /\ result = Value(Receiver)

\* the supplier was invoked for an Absent receiver and its result returned
C6_Witness ==
    /\ op = "orElseGet"
    /\ IsAbsenceMarker(Receiver)
    /\ Len(calls) = 1
    /\ result.kind = "value"

\* C7: or(supplier) on a Present receiver returns an Optional holding the
\* receiver's value; on an Absent receiver it returns exactly the Optional the
\* supplier produced, Present or Absent.
C7_Or ==
    op = "or" =>
        /\ ~IsAbsenceMarker(Receiver) => ReturnedOptional(Receiver)
        /\ (IsAbsenceMarker(Receiver) /\ ~arg.thrown) => result = Opt(arg.val)

\* the supplier's Optional was Absent, with the marker the receiver does not hold
C7_Witness ==
    /\ op = "or"
    /\ IsAbsenceMarker(Receiver)
    /\ ReturnedAbsent
    /\ result.val.value # Receiver

\* C8: or(supplier) is lazy: supplier is never invoked when the receiver is
\* Present and is invoked exactly once when it is Absent.
C8_OrLazy ==
    op = "or" =>
        IF IsAbsenceMarker(Receiver)
        THEN calls = <<Call("supplier", <<>>, arg)>>
        ELSE calls = <<>>

\* or on a Present receiver, no supplier call recorded
C8_Witness ==
    /\ op = "or"
    /\ ~IsAbsenceMarker(Receiver)
    /\ calls = <<>>
    /\ result.kind = "optional"

\* C9: orElseThrow returns the held value on a Present receiver; on an Absent
\* one it raises the error errorSupplier produces if one was given, else the
\* default error 'No value present in Optional'.  get() does on every receiver
\* what orElseThrow() without errorSupplier does.
C9_OrElseThrow ==
    /\ op = "orElseThrow" =>
           /\ ~IsAbsenceMarker(Receiver) => result = Value(Receiver) /\ calls = <<>>
           /\ (IsAbsenceMarker(Receiver) /\ arg.given) => result = Raise(arg.out.val)
           /\ (IsAbsenceMarker(Receiver) /\ ~arg.given) => result = Raise(NoValuePresent)
           /\ ~arg.given => Done(result, calls) = get(Receiver)
    /\ op = "get" => Done(result, calls) = orElseThrow(Receiver, NoSupplier)

\* the error of the given errorSupplier was raised
C9_Witness ==
    /\ op = "orElseThrow"
    /\ IsAbsenceMarker(Receiver)
    /\ arg.given
    /\ result.kind = "throw"
    /\ result.val \in UserErrors

\* C10 as stated: no operation raises but orElseThrow/get on an Absent receiver.
C10_Original ==
    result.kind = "throw" => (op \in {"orElseThrow", "get"} /\ IsAbsenceMarker(Receiver))

\* C10 amended: an operation raises only when it is orElseThrow/get on an
\* Absent receiver, or when the user function it invoked last raised, and then
\* it raises that function's error.
C10_OnlySupplierFailures ==
    result.kind = "throw" =>
        \/ op \in {"orElseThrow", "get"} /\ IsAbsenceMarker(Receiver)
        \/ calls # <<>> /\ calls[Len(calls)].out = Throws(result.val)

\* an operation other than orElseThrow/get raised its user function's error
C10_Witness ==
    /\ result.kind = "throw"
    /\ op \notin {"orElseThrow", "get"}
    /\ calls # <<>>
    /\ calls[Len(calls)].out.thrown

\* C11: an error a user-supplied mapper, predicate, consumer, supplier or
\* optionalPath accessor throws is not caught or turned into Absent: the
\* operation raises that very error, returns no Optional, invokes nothing
\* after it, and leaves every existing Optional as it was.
C11_UserErrorsPropagate ==
    [][UserFunctionThrew' =>
           /\ result' = Raise(calls'[Len(calls')].out.val)
           /\ \A i \in 1..(Len(calls') - 1) : ~calls'[i].out.thrown
           /\ \A i \in DOMAIN objs : i \in DOMAIN objs' /\ objs'[i] = objs[i]
           /\ op' # "optionalPath" => objs' = objs]_vars

\* the accessor of optionalPath threw and optionalPath raised its error
C11_Witness ==
    /\ op = "optionalPath"
    /\ Len(calls) = 1
    /\ calls[1].out.thrown
    /\ result = Raise(calls[1].out.val)

\* C12: ifPresent invokes consumer exactly once, with the held value, iff the
\* receiver is Present; ifPresentOrElse invokes exactly one of its callbacks,
\* exactly once: action(v) on Present(v), emptyAction() on Absent.
C12_IfPresent ==
    /\ op = "ifPresent" =>
           IF IsAbsenceMarker(Receiver)
           THEN calls = <<>> /\ result = Void
           ELSE calls = <<Call("consumer", <<Receiver>>, arg[Receiver])>>
    /\ op = "ifPresentOrElse" =>
           IF IsAbsenceMarker(Receiver)
           THEN calls = <<Call("emptyAction", <<>>, arg[2])>>
           ELSE calls = <<Call("action", <<Receiver>>, arg[1][Receiver])>>

\* ifPresentOrElse on a Present receiver ran action alone
C12_Witness ==
    /\ op = "ifPresentOrElse"
    /\ ~IsAbsenceMarker(Receiver)
    /\ Len(calls) = 1
    /\ calls[1].fn = "action"
    /\ result = Void

\* C13: a.equals(b) is true iff both are Absent, whichever marker each wraps,
\* or both are Present with strictly equal held values.
C13_Equals ==
    op = "equals" =>
        /\ calls = <<>>
        /\ result = Value(Bool(
               \/ IsAbsenceMarker(Receiver) /\ IsAbsenceMarker(objs[arg].value)
               \/ /\ ~IsAbsenceMarker(Receiver)
                  /\ ~IsAbsenceMarker(objs[arg].value)
                  /\ Receiver = objs[arg].value))

\* of(null).equals(of(undefined)), or the other way round, is true
C13_Witness ==
    /\ op = "equals"
    /\ IsAbsenceMarker(Receiver)
    /\ IsAbsenceMarker(objs[arg].value)
    /\ Receiver # objs[arg].value
    /\ result = Value(Bool(TRUE))

\* C14: Optionals are immutable: no operation changes the value an existing
\* Optional wraps, so unwrap() and isPresent() stay what they were at its
\* construction; a transforming operation returns a new Optional.
C14_Immutable ==
    [][/\ \A i \in DOMAIN objs : i \in DOMAIN objs' /\ objs'[i] = objs[i]
       /\ (op' \in {"map", "flatMap", "filter", "or"} /\ result'.kind = "optional") =>
              /\ Len(objs') = Len(objs) + 1
              /\ objs'[Len(objs')] = result'.val]_vars

\* a transformation returned an Optional unlike its receiver, which is as it was
C14_Witness ==
    /\ op \in {"map", "flatMap", "filter", "or"}
    /\ result.kind = "optional"
    /\ Len(objs) = 2
    /\ recv = 1
    /\ objs[2] = result.val
    /\ isPresent(objs[1].value) # isPresent(objs[2].value)

\* C15: optionalPath(source, accessor) is Optional.of(source).map(accessor):
\* a null or undefined source gives Absent without invoking the accessor;
\* otherwise the accessor is invoked once, on source, and the result is
\* Present iff what it returned is neither null nor undefined.
C15_OptionalPath ==
    op = "optionalPath" =>
        /\ Done(result, calls) = map(Optional_of(arg[1]).value, arg[2])
        /\ IF IsAbsenceMarker(arg[1])
           THEN ReturnedAbsent /\ calls = <<>>
           ELSE /\ calls = <<Call("mapper", <<arg[1]>>, arg[2][arg[1]])>>
                /\ ~arg[2][arg[1]].thrown =>
                       /\ result.kind = "optional"
                       /\ unwrap(result.val.value) = arg[2][arg[1]].val
                       /\ IsAbsenceMarker(result.val.value)
                              = IsAbsenceMarker(arg[2][arg[1]].val)

\* a falsy source reached the accessor, which returned a Present value
C15_Witness ==
    /\ op = "optionalPath"
    /\ arg[1] \in {Num(0), Str(0), Bool(FALSE)}
    /\ Len(calls) = 1
    /\ result.kind = "optional"
    /\ ~IsAbsenceMarker(result.val.value)

\* C16: orElseGetAsync on a Present Optional returns the held value without
\* awaiting anything and without invoking supplier; on an Absent one it
\* invokes supplier exactly once, stays suspended while the supplier's promise
\* is pending, and returns the value that promise resolves with.
C16_OrElseGetAsync ==
    \A i \in DOMAIN tasks :
        tasks[i].kind = "orElseGetAsync" =>
            IF IsAbsenceMarker(tasks[i].value)
            THEN /\ tasks[i].supplied = 1
                 /\ tasks[i].promise.state = "pending" => tasks[i].status = "awaiting"
                 /\ tasks[i].status = "fulfilled" =>
                        /\ tasks[i].promise.state = "resolved"
                        /\ tasks[i].val = tasks[i].promise.val
                 /\ (tasks[i].promise.state = "resolved" /\ tasks[i].status # "awaiting") =>
                        tasks[i].status = "fulfilled"
            ELSE /\ tasks[i].supplied = 0
                 /\ tasks[i].promise = NoPromise
                 /\ tasks[i].status = "fulfilled"
                 /\ tasks[i].val = tasks[i].value

\* a call on an Absent Optional returned what its supplier's promise resolved
\* with, and a call on a falsy Present value returned that value
C16_Witness ==
    /\ Len(tasks) = 2
    /\ IsAbsenceMarker(tasks[1].value)
    /\ tasks[1].status = "fulfilled"
    /\ tasks[1].val = Num(1)
    /\ tasks[2].value = Num(0)
    /\ tasks[2].status = "fulfilled"

\* C17: when the Optional is Absent and the supplier fails, by throwing or by a
\* rejected promise, orElseGetAsync fails with that same error: it is not
\* caught, no fallback value is returned, the supplier is not called again.
C17_OrElseGetAsyncFails ==
    \A i \in DOMAIN tasks :
        (tasks[i].kind = "orElseGetAsync" /\ IsAbsenceMarker(tasks[i].value)) =>
            /\ (tasks[i].promise.state = "rejected" /\ tasks[i].status # "awaiting") =>
                   /\ tasks[i].status = "rejected"
                   /\ tasks[i].val = tasks[i].promise.val
                   /\ tasks[i].supplied = 1
            /\ tasks[i].promise.state = "none" =>
                   /\ tasks[i].status = "rejected"
                   /\ tasks[i].val \in UserErrors
                   /\ tasks[i].supplied = 1
            /\ tasks[i].status = "rejected" =>
                   tasks[i].promise.state \in {"rejected", "none"}

\* the supplier's promise was rejected after the call and the call failed with it
C17_Witness ==
    /\ op = "resume"
    /\ tasks[arg].kind = "orElseGetAsync"
    /\ tasks[arg].promise.state = "rejected"
    /\ tasks[arg].status = "rejected"
    /\ tasks[arg].val = tasks[arg].promise.val

\* C18: the view and the cell agree in every state any interleaving of cell
\* writes, view writes and setAsync settlements reaches: a read of the view
\* gives an Optional whose unwrap() is the cell's content and which is Present
\* iff that content is neither null nor undefined; no read is stale.
C18_ViewConsistent ==
    /\ unwrap(ComputedGet.value) = cell
    /\ isPresent(ComputedGet.value) = ~IsAbsenceMarker(cell)
    /\ op = "optional.get" =>
           /\ result.kind = "optional"
           /\ unwrap(result.val.value) = cell
           /\ isPresent(result.val.value) = ~IsAbsenceMarker(cell)

\* a read after the view was read, the cell then changed by a settled setAsync
C18_Witness ==
    /\ op = "optional.get"
    /\ Len(tasks) = 1
    /\ tasks[1].status = "fulfilled"
    /\ tasks[1].promise = Resolved(Num(0))
    /\ result = Opt(Optional_of(Num(0)))
    /\ cell = Num(0)

\* C19: writing an Optional o to the view stores exactly o.unwrap() in the
\* cell: Present(v) stores v, an Absent Optional its marker (Optional.empty()
\* undefined); the cell and a read of the view then both give that value.
C19_ViewWrite ==
    op = "optional.set" =>
        /\ cell = arg.value
        /\ arg = Optional_empty => cell = Undefined
        /\ unwrap(ComputedGet.value) = arg.value

\* an Optional wrapping null was written and the cell holds null
C19_Witness ==
    /\ op = "optional.set"
    /\ arg.value = Null
    /\ cell = Null
    /\ cache.dirty

\* C20: when the promise given to setAsync resolves with r, then as setAsync
\* completes the cell holds exactly r, whatever it held before: the view is
\* Present(r) when r is neither null nor undefined, Absent when it is, and
\* nothing is reported to console.error.
C20_SetAsyncSuccess ==
    [][\A i \in DOMAIN tasks :
           (/\ tasks[i].kind = "setAsync"
            /\ tasks[i].promise.state = "resolved"
            /\ tasks[i].status = "awaiting"
            /\ tasks'[i].status # "awaiting") =>
               /\ tasks'[i].status = "fulfilled"
               /\ cell' = tasks[i].promise.val
               /\ unwrap(ComputedGet.value)' = tasks[i].promise.val
               /\ isPresent(ComputedGet.value)' = ~IsAbsenceMarker(tasks[i].promise.val)
               /\ console' = console]_vars

\* setAsync completed with a promise resolved with null: the cell holds null
C20_Witness ==
    /\ op = "resume"
    /\ tasks[arg].kind = "setAsync"
    /\ tasks[arg].promise = Resolved(Null)
    /\ tasks[arg].status = "fulfilled"
    /\ cell = Null
    /\ console = <<>>

\* C21: when the promise given to setAsync rejects, then as setAsync completes
\* the cell holds undefined whatever it held before, the view is Absent, and
\* console.error has received exactly one report for that call, carrying the
\* rejection.
C21_SetAsyncFailure ==
    [][\A i \in DOMAIN tasks :
           (/\ tasks[i].kind = "setAsync"
            /\ tasks[i].promise.state = "rejected"
            /\ tasks[i].status = "awaiting"
            /\ tasks'[i].status # "awaiting") =>
               /\ cell' = Undefined
               /\ IsAbsenceMarker(unwrap(ComputedGet.value)')
               /\ console' = Append(console, [task |-> i, report |-> Report(tasks[i].promise.val)])
               /\ Len(SelectSeq(console', LAMBDA r : r.task = i)) = 1]_vars

\* setAsync completed with a rejected promise over a cell that held a number
C21_Witness ==
    /\ op = "resume"
    /\ tasks[arg].kind = "setAsync"
    /\ tasks[arg].promise.state = "rejected"
    /\ tasks[arg].status # "awaiting"
    /\ cell = Undefined
    /\ cache.value.value \in {Num(n) : n \in 0..MaxCode}
    /\ Len(console) = 1

\* C22: the promise setAsync returns never rejects: while the given promise is
\* pending or its continuation is still queued the call is awaiting, and once
\* the continuation has run, after a resolution or after a rejection, the
\* returned promise is fulfilled.
C22_SetAsyncNeverRejects ==
    \A i \in DOMAIN tasks :
        tasks[i].kind = "setAsync" =>
            /\ tasks[i].status \in {"awaiting", "fulfilled"}
            /\ (tasks[i].status = "awaiting") <=>
                   \/ tasks[i].promise.state = "pending"
                   \/ \E k \in DOMAIN microtasks : microtasks[k] = i

\* setAsync was given a promise that rejected, and its own promise is fulfilled
C22_Witness ==
    \E i \in DOMAIN tasks :
        /\ tasks[i].kind = "setAsync"
        /\ tasks[i].promise.state = "rejected"
        /\ tasks[i].status = "fulfilled"
        /\ \E r \in 1..Len(console) : console[r].task = i

\* what a settled promise leaves in the cell: the value it resolved with, or
\* undefined after a rejection
OutcomeOf(promise) == IF promise.state = "resolved" THEN promise.val ELSE Undefined

\* every setAsync call made has completed, the last of them just now
AllSetAsyncCompleted ==
    /\ Len(tasks) >= 2
    /\ \A i \in DOMAIN tasks : tasks[i].kind = "setAsync" /\ tasks[i].status # "awaiting"
    /\ op = "resume"

\* C24 as stated: after overlapping setAsync calls have all completed, the cell
\* holds the outcome of the call whose promise settled last.
C24_Original ==
    AllSetAsyncCompleted => cell = OutcomeOf(tasks[settled[Len(settled)]].promise)

\* C24: after overlapping setAsync calls have all completed, the cell holds the
\* outcome of the call that became ready last, where a call becomes ready when
\* its promise settles or, for a promise that had settled before the call, at
\* the call; the order in which the calls were issued does not matter otherwise.
C24_LastReadyWins ==
    AllSetAsyncCompleted =>
        /\ cell = OutcomeOf(tasks[ready[Len(ready)]].promise)
        /\ (\A i \in DOMAIN tasks : tasks[i].value = Undefined /\ tasks[i].supplied = 0)
        /\ Len(ready) = Len(tasks)

\* the call issued first became ready last, and its outcome is in the cell
C24_Witness ==
    /\ AllSetAsyncCompleted
    /\ Len(tasks) = 2
    /\ ready = <<2, 1>>
    /\ OutcomeOf(tasks[1].promise) # OutcomeOf(tasks[2].promise)
    /\ cell = OutcomeOf(tasks[1].promise)

\* C25: a setAsync call writes the cell exactly once, in the step that completes
\* it after its promise settled: the call itself and the settling of a promise
\* leave the cell unchanged, a completed call never acts again, and the
\* completing step stores the outcome over whatever the cell held by then.
C25_WritesOnceAtSettlement ==
    [][/\ (op' \in {"setAsync", "settle"}) => cell' = cell
       /\ (cell' # cell) => op' \in {"ref.set", "optional.set", "resume"}
       /\ \A i \in DOMAIN tasks :
              tasks[i].kind = "setAsync" =>
                  /\ (tasks[i].status # "awaiting") => tasks'[i] = tasks[i]
                  /\ (tasks[i].status = "awaiting" /\ tasks'[i].status # "awaiting") =>
                         /\ tasks[i].promise.state # "pending"
                         /\ cell' = OutcomeOf(tasks[i].promise)]_vars

\* the view had shown 1 before a setAsync call completed and stored 0 over it
C25_Witness ==
    /\ op = "resume"
    /\ tasks[arg].kind = "setAsync"
    /\ tasks[arg].promise = Resolved(Num(0))
    /\ cell = Num(0)
    /\ cache = [dirty |-> TRUE, value |-> Optional_of(Num(1))]

\* C26: setAsync and orElseGetAsync run to completion: a call whose awaited
\* promise has settled completes in the end; a call whose promise is still
\* pending has not completed, whatever time has passed, and the cell is
\* written by a setAsync call only after its promise settled.
C26_RunToCompletion ==
    /\ \A i \in 1..MaxCalls :
           (IF i \in DOMAIN tasks
            THEN tasks[i].promise.state \in {"resolved", "rejected"} ELSE FALSE)
               ~> (IF i \in DOMAIN tasks THEN tasks[i].status # "awaiting" ELSE FALSE)
    /\ [](\A i \in DOMAIN tasks :
              tasks[i].promise.state = "pending" => tasks[i].status = "awaiting")
    /\ [][(cell' # cell) =>
              /\ op' = "resume"
              /\ tasks[arg'].kind = "setAsync"
              /\ tasks[arg'].promise.state # "pending"]_vars

\* a setAsync call and an orElseGetAsync call have both completed after their
\* promises settled
C26_Witness ==
    \E i, j \in DOMAIN tasks :
        /\ tasks[i].kind = "setAsync"
        /\ tasks[j].kind = "orElseGetAsync"
        /\ tasks[i].promise.state \in {"resolved", "rejected"}
        /\ tasks[j].promise.state \in {"resolved", "rejected"}
        /\ tasks[i].status # "awaiting"
        /\ tasks[j].status # "awaiting"
        /\ microtasks = <<>>

\* C23 as stated: getOrThrow returns the held value when it is neither null nor
\* undefined; otherwise it throws the given Error instance, or an Error
\* carrying the given message when a string is given, or an Error with the
\* message 'Value is not present' when no argument is given.
C23_Original ==
    op = "getOrThrow" =>
        IF ~IsAbsenceMarker(maybes[recv].unwrap)
        THEN result = Value(maybes[recv].unwrap)
        ELSE /\ result.kind = "throw"
             /\ (arg.t = "error") => result.val = arg
             /\ (arg.t = "string") => result.val = NewError(arg)
             /\ (arg = Undefined) => result.val = NewError(ValueIsNotPresent)

\* C23: getOrThrow returns the held value when it is neither null nor
\* undefined; otherwise it throws the given Error instance, or an Error
\* carrying the given message when a non-empty string is given, or an Error
\* with the message 'Value is not present' when no argument or the empty string
\* is given.
C23_GetOrThrow ==
    op = "getOrThrow" =>
        IF ~IsAbsenceMarker(maybes[recv].unwrap)
        THEN result = Value(maybes[recv].unwrap)
        ELSE /\ result.kind = "throw"
             /\ (arg.t = "error") => result.val = arg
             /\ (arg.t = "string" /\ arg # Str(0)) => result.val = NewError(arg)
             /\ (arg = Str(0)) => result.val = NewError(ValueIsNotPresent)
             /\ (arg = Undefined) => result.val = NewError(ValueIsNotPresent)

\* getOrThrow('x') on useMaybe(null) threw an Error with the message 'x'
C23_Witness ==
    /\ op = "getOrThrow"
    /\ maybes[recv].unwrap = Null
    /\ arg = Str(1)
    /\ result = Raise(NewError(Str(1)))

\* C27: in a chain of map, flatMap and filter steps the user functions are
\* invoked in the order the steps are written, each at most once and on the
\* value held then, and only when the receiver and every earlier result is
\* Present; after a step that yields Absent no function is invoked and every
\* later result is Absent.
C27_ChainOrder ==
    /\ \A a, b \in DOMAIN calls : a < b => calls[a].step < calls[b].step
    /\ \A k \in DOMAIN calls :
           /\ calls[k].step \in DOMAIN steps
           /\ calls[k].call.args = <<objs[calls[k].step].value>>
           /\ calls[k].call.out = steps[calls[k].step].fn[objs[calls[k].step].value]
           /\ \A j \in 1..calls[k].step : ~IsAbsenceMarker(objs[j].value)
    /\ \A j, k \in DOMAIN objs :
           (j < k /\ IsAbsenceMarker(objs[j].value)) =>
               /\ IsAbsenceMarker(objs[k].value)
               /\ \A c \in DOMAIN calls : calls[c].step < j

\* a chain of two steps whose first step yielded Absent: one invocation only
C27_Witness ==
    /\ Len(steps) = 2
    /\ Len(objs) = 3
    /\ ~IsAbsenceMarker(objs[1].value)
    /\ IsAbsenceMarker(objs[2].value)
    /\ IsAbsenceMarker(objs[3].value)
    /\ Len(calls) = 1
    /\ calls[1].step = 1

\* f never throws and never returns null or undefined
NeverNull(f) == \A v \in NonNull : ~f[v].thrown /\ ~IsAbsenceMarker(f[v].val)

\* v => g(f(v))
Composed(f, g) == [v \in NonNull |-> g[f[v].val]]

\* two results are the same: thrown errors, or Optionals alike in presence and
\* in the value held when Present
SameOptional(r, q) ==
    /\ r.kind = q.kind
    /\ (r.kind = "throw") => r.val = q.val
    /\ (r.kind = "optional") =>
           /\ IsAbsenceMarker(r.val.value) <=> IsAbsenceMarker(q.val.value)
           /\ ~IsAbsenceMarker(r.val.value) => r.val.value = q.val.value

\* C28: Optional.of(x).map(f).map(g) is the same as Optional.of(x).map(v =>
\* g(f(v))) in presence and held value when f never returns null or undefined,
\* and o.map(v => v) is the same as o.
C28_MapLaws ==
    /\ (/\ Len(steps) >= 2
        /\ steps[1].op = "map"
        /\ steps[2].op = "map"
        /\ NeverNull(steps[1].fn)
        /\ op = "map") =>
           /\ Len(objs) >= 2
           /\ SameOptional(IF Len(objs) >= 3 THEN Opt(objs[3]) ELSE result,
                           map(objs[1].value, Composed(steps[1].fn, steps[2].fn)).result)
    /\ \A n \in DOMAIN steps :
           (steps[n].op = "map" /\ steps[n].fn = [x \in NonNull |-> Returns(x)]) =>
               /\ Len(objs) > n
               /\ SameOptional(Opt(objs[n + 1]), Opt(objs[n]))

\* x => !x then the identity on Optional.of(0): the chain holds true, as the
\* single map of the composition does
C28_Witness ==
    /\ Len(steps) = 2
    /\ steps[1] = [op |-> "map", fn |-> [x \in NonNull |-> Returns(Bool(~Truthy(x)))]]
    /\ steps[2] = [op |-> "map", fn |-> [x \in NonNull |-> Returns(x)]]
    /\ objs = <<Optional_of(Num(0)), Optional_of(Bool(TRUE)), Optional_of(Bool(TRUE))>>

\* C29: filter on an Absent receiver returns an Optional whose unwrap() is the
\* receiver's own marker, null for null and undefined for undefined; map and
\* flatMap on an Absent receiver, and filter with a predicate that returns
\* false, return an Optional whose unwrap() is undefined.
C29_MarkerCarried ==
    /\ (op = "filter" /\ IsAbsenceMarker(Receiver)) =>
           /\ result.kind = "optional"
           /\ unwrap(result.val.value) = Receiver
           /\ calls = <<>>
    /\ (op \in {"map", "flatMap"} /\ IsAbsenceMarker(Receiver)) =>
           /\ result.kind = "optional"
           /\ unwrap(result.val.value) = Undefined
    /\ (/\ op = "filter"
        /\ ~IsAbsenceMarker(Receiver)
        /\ arg[Receiver] = Returns(Bool(FALSE))) =>
           /\ result.kind = "optional"
           /\ unwrap(result.val.value) = Undefined

\* filter on Optional.of(null) returned an Optional that unwraps to null
C29_Witness ==
    /\ op = "filter"
    /\ Receiver = Null
    /\ ReturnedOptional(Null)

\* orElse(d) on the useMaybe chain gives what it gave on the Optional chain
SameOrElse ==
    op = "orElse" => maybe_orElse(maybes[recv], arg).result = result

\* useMaybePath(obj, accessor) and optionalPath(obj, accessor) end alike: the
\* same error thrown, or results alike in presence and unwrapped value, the
\* accessor not invoked when obj is null or undefined; and the chain of one
\* map step is what useMaybePath gives
SamePath ==
    (Len(steps) >= 1 /\ steps[1].op = "map") =>
        LET p == useMaybePath(objs[1].value, steps[1].fn)
            q == optionalPath(objs[1].value, steps[1].fn)
        IN  /\ (q.result.kind = "throw") => p.result = q.result
            /\ (q.result.kind = "optional") =>
                   /\ p.result.kind = "maybe"
                   /\ p.result.val.hasValue = isPresent(q.result.val.value)
                   /\ p.result.val.isEmpty = isEmpty(q.result.val.value)
                   /\ p.result.val.unwrap = unwrap(q.result.val.value)
                   /\ Len(maybes) >= 2
                   /\ p.result.val = maybes[2]
            /\ Len(p.calls) = Len(q.calls)
            /\ IsAbsenceMarker(objs[1].value) =>
                   /\ p.calls = <<>>
                   /\ \A c \in DOMAIN mcalls : mcalls[c].step # 1

\* C30 as stated: along every chain of map, flatMap and filter steps the
\* useMaybe chain and the Optional.of chain agree in presence (hasValue =
\* isPresent, isEmpty = isEmpty) and in the unwrapped value, orElse(d) yields
\* the same value, and useMaybePath agrees with optionalPath.
C30_Original ==
    /\ Len(maybes) = Len(objs)
    /\ \A k \in DOMAIN objs :
           /\ maybes[k].hasValue = isPresent(objs[k].value)
           /\ maybes[k].isEmpty = isEmpty(objs[k].value)
           /\ maybes[k].unwrap = unwrap(objs[k].value)
    /\ SameOrElse
    /\ SamePath

\* C30: along every chain of map, flatMap and filter steps the useMaybe chain
\* and the Optional.of chain agree in presence and, when Present, in the
\* unwrapped value; when Absent they unwrap to the same marker except after a
\* filter step on a receiver holding null, where Optional keeps null and
\* useMaybe gives undefined; orElse(d) yields the same value, and useMaybePath
\* agrees with optionalPath.
C30_MaybeAgrees ==
    /\ Len(maybes) = Len(objs)
    /\ \A k \in DOMAIN objs :
           /\ maybes[k].hasValue = isPresent(objs[k].value)
           /\ maybes[k].isEmpty = isEmpty(objs[k].value)
           /\ \/ maybes[k].unwrap = unwrap(objs[k].value)
              \/ /\ k > 1
                 /\ steps[k - 1].op = "filter"
                 /\ objs[k - 1].value = Null
                 /\ unwrap(objs[k].value) = Null
                 /\ maybes[k].unwrap = Undefined
    /\ [k \in DOMAIN mcalls |-> mcalls[k].step] = [k \in DOMAIN calls |-> calls[k].step]
    /\ SameOrElse
    /\ SamePath

\* a map to null then a filter: both chains Absent, Optional unwraps to null
\* and useMaybe to undefined
C30_Witness ==
    /\ Len(steps) = 2
    /\ steps[1].op = "map"
    /\ steps[2].op = "filter"
    /\ ~IsAbsenceMarker(objs[1].value)
    /\ objs[3].value = Null
    /\ maybes[3].unwrap = Undefined
    /\ maybes[3].isEmpty

====
